---- MODULE Spec2Model ----
(***************************************************************************)
(* QuizGenius: the document-extraction endpoint (app/api/extract-pdf),     *)
(* the speech-synthesis endpoint (app/api/text-to-speech) and the          *)
(* placeholder WAV generators, as a state machine.                         *)
(*                                                                         *)
(* A text is a sequence of one-character strings.  One request is handled  *)
(* at a time: the handlers keep no state between requests.                 *)
(***************************************************************************)
EXTENDS Integers, Sequences, FiniteSets, TLC

(***************************************************************************)
(* Bounds of the model.                                                    *)
(***************************************************************************)
\* how far beyond the truncation limit the longest request text reaches
ExtraLen == 1000
\* placeholder generators are tabulated for every text length 0..MaxWavLen
MaxWavLen == 500
\* longest text an extraction backend yields beyond the endpoint's gate
MaxYield == 1
\* estimateDuration is tabulated for texts of 0..MaxEstWords words
MaxEstWords == 151
\* a scanned document has up to MaxRuns matches of each regular expression
MaxRuns == 2
\* longest text a client receives beyond its highest gate
MaxClientExtra == 1
\* a generated quiz has 1..MaxQuestions questions
MaxQuestions == 2

(***************************************************************************)
(* Program constants.                                                      *)
(***************************************************************************)
MaxTtsLen == 5000
SampleRate == 22050
WordsPerMinute == 150
CharsPerWord == 5
MinSeconds == 30
ClientCharsPerSecond == 50
ClientMaxSeconds == 60
WavHeaderLen == 44
EndpointGate == 10
CascadeGate == 10
StreamNoise == 10
SecondPassBelow == 50
LiteralNoise == 3
QuizGate == 50
QuizFirstGate == 50
QuizRetryGate == 10
PodcastGate == 100
PodcastFirstGate == 100
PodcastRetryGate == 50

Max(a, b) == IF a >= b THEN a ELSE b
Min(a, b) == IF a <= b THEN a ELSE b

(***************************************************************************)
(* Characters and texts.                                                   *)
(***************************************************************************)
\* JavaScript's \s, as far as the sample texts use it
Whitespace == {" ", "\n", "\t", "\r"}

\* JavaScript's \w
WordChars ==
  {"a","b","c","d","e","f","g","h","i","j","k","l","m","n","o","p","q","r",
   "s","t","u","v","w","x","y","z",
   "A","B","C","D","E","F","G","H","I","J","K","L","M","N","O","P","Q","R",
   "S","T","U","V","W","X","Y","Z",
   "0","1","2","3","4","5","6","7","8","9","_"}

\* the punctuation the cleaning keeps: . , ! ? ; : ' " -
KeptPunctuation == {".", ",", "!", "?", ";", ":", "'", "\"", "-"}

\* marks a position that emits no character
Dropped == ""

Compact(s) == SelectSeq(s, LAMBDA c : c # Dropped)

Rep(unit, n) == [i \in 1..(n * Len(unit)) |-> unit[((i - 1) % Len(unit)) + 1]]

\* String.prototype.replace(/<tok>/g, rep) for a literal token that cannot
\* overlap itself; rep is one character or Dropped
ReplaceToken(s, tok, rep) ==
  LET n == Len(s)
      k == Len(tok)
      starts == [i \in 1..n |-> i + k - 1 <= n /\ SubSeq(s, i, i + k - 1) = tok]
      inside == [i \in 1..n |-> \E j \in 1..(k - 1) : i - j >= 1 /\ starts[i - j]]
  IN  Compact([i \in 1..n |->
                 IF starts[i] THEN rep
                 ELSE IF inside[i] THEN Dropped
                 ELSE s[i]])

\* .replace(/\*/g, '')
StripStars(s) == SelectSeq(s, LAMBDA c : c # "*")

\* .replace(/#{1,6}\s/g, ''): a run of one to six '#' and the whitespace
\* character that follows it
StripHeadings(s) ==
  LET n == Len(s)
      hashesTo(i, j) == \A m \in i..j : s[m] = "#"
      \* s[i] is a '#' of a match: a whitespace follows within six positions,
      \* with only '#' between
      inMatch == [i \in 1..n |->
                    /\ s[i] = "#"
                    /\ \E j \in (i + 1)..Min(n, i + 6) :
                         s[j] \in Whitespace /\ hashesTo(i, j - 1)]
      \* s[i] is the whitespace that closes a match
      closes == [i \in 1..n |-> s[i] \in Whitespace /\ i > 1 /\ s[i - 1] = "#"]
  IN  Compact([i \in 1..n |-> IF inMatch[i] \/ closes[i] THEN Dropped ELSE s[i]])

\* .replace(/[^\w\s.,!?;:'"-]/g, ' ')
KeptChars == WordChars \cup Whitespace \cup KeptPunctuation

BlankSymbols(s) ==
  [i \in 1..Len(s) |-> IF s[i] \in KeptChars THEN s[i] ELSE " "]

\* .replace(/\s+/g, ' ')
CollapseWhitespace(s) ==
  Compact([i \in 1..Len(s) |->
             IF s[i] \in Whitespace
             THEN IF i > 1 /\ s[i - 1] \in Whitespace THEN Dropped ELSE " "
             ELSE s[i]])

\* String.prototype.trim
Trim(s) ==
  LET n == Len(s)
      idx == {i \in 1..n : s[i] \notin Whitespace}
  IN  IF idx = {} THEN <<>>
      ELSE LET lo == CHOOSE i \in idx : \A j \in 1..(i - 1) : s[j] \in Whitespace
               hi == CHOOSE i \in idx : \A j \in (i + 1)..n : s[j] \in Whitespace
           IN  SubSeq(s, lo, hi)

TokPause == <<"[","P","A","U","S","E","]">>
TokEmphasis == <<"[","E","M","P","H","A","S","I","S","]">>
TokSlow == <<"[","S","L","O","W","]">>
TokExcited == <<"[","E","X","C","I","T","E","D","]">>

\* the chain of replacements that prepares the text for the backend
CleanForTTS(text) ==
  Trim(CollapseWhitespace(BlankSymbols(StripHeadings(StripStars(
    ReplaceToken(ReplaceToken(ReplaceToken(ReplaceToken(
      text, TokPause, " "), TokEmphasis, Dropped), TokSlow, Dropped),
      TokExcited, Dropped))))))

ContinuationNotice ==
  <<".",".","."," ","[","C","o","n","t","e","n","t"," ",
    "c","o","n","t","i","n","u","e","s"," ","i","n"," ","f","u","l","l"," ",
    "t","r","a","n","s","c","r","i","p","t","]">>

\* cleanText after the length check
TruncateForTTSMutAtLimit(clean) ==
  IF Len(clean) >= MaxTtsLen
  THEN SubSeq(clean, 1, MaxTtsLen) \o ContinuationNotice
  ELSE clean

TruncateForTTS(clean) ==
  IF Len(clean) > MaxTtsLen
  THEN SubSeq(clean, 1, MaxTtsLen) \o ContinuationNotice
  ELSE clean

(***************************************************************************)
(* Placeholder audio: duration, sample count and the 44-byte WAV header.   *)
(* A duration is the exact fraction num/den of a second.                   *)
(***************************************************************************)
\* DataView.setUint8 / setUint16 / setUint32 (little-endian) on the header
\* bytes; the view is a sequence indexed by offset + 1
SetUint8(view, offset, v) == [view EXCEPT ![offset + 1] = v % 256]

SetUint16(view, offset, v) ==
  SetUint8(SetUint8(view, offset, v), offset + 1, v \div 256)

SetUint32(view, offset, v) ==
  SetUint8(SetUint8(SetUint8(SetUint8(view,
    offset, v), offset + 1, v \div 256), offset + 2, v \div 65536),
    offset + 3, v \div 16777216)

\* writeString(offset, string), the string given by its character codes
WriteString(view, offset, codes) ==
  [i \in 1..Len(view) |->
     IF i - 1 >= offset /\ i - 1 < offset + Len(codes)
     THEN codes[i - offset] % 256
     ELSE view[i]]

CodesRIFF == <<82, 73, 70, 70>>
CodesWAVE == <<87, 65, 86, 69>>
CodesFmt == <<102, 109, 116, 32>>
CodesData == <<100, 97, 116, 97>>

\* the header writes of generateFallbackAudio, in the order of the code
WavHeaderMutHalfData(samples) ==
  LET v0 == [i \in 1..WavHeaderLen |-> 0]
      v1 == WriteString(v0, 0, CodesRIFF)
      v2 == SetUint32(v1, 4, 36 + samples * 2)
      v3 == WriteString(v2, 8, CodesWAVE)
      v4 == WriteString(v3, 12, CodesFmt)
      v5 == SetUint32(v4, 16, 16)
      v6 == SetUint16(v5, 20, 1)
      v7 == SetUint16(v6, 22, 1)
      v8 == SetUint32(v7, 24, SampleRate)
      v9 == SetUint32(v8, 28, SampleRate * 2)
      v10 == SetUint16(v9, 32, 2)
      v11 == SetUint16(v10, 34, 16)
      v12 == WriteString(v11, 36, CodesData)
  IN  SetUint32(v12, 40, samples)

WavHeader(samples) ==
  LET v0 == [i \in 1..WavHeaderLen |-> 0]
      v1 == WriteString(v0, 0, CodesRIFF)
      v2 == SetUint32(v1, 4, 36 + samples * 2)
      v3 == WriteString(v2, 8, CodesWAVE)
      v4 == WriteString(v3, 12, CodesFmt)
      v5 == SetUint32(v4, 16, 16)
      v6 == SetUint16(v5, 20, 1)
      v7 == SetUint16(v6, 22, 1)
      v8 == SetUint32(v7, 24, SampleRate)
      v9 == SetUint32(v8, 28, SampleRate * 2)
      v10 == SetUint16(v9, 32, 2)
      v11 == SetUint16(v10, 34, 16)
      v12 == WriteString(v11, 36, CodesData)
  IN  SetUint32(v12, 40, samples * 2)

\* route.ts and the newer client component: max(words / 150 * 60, 30)
SpeechDuration(textLength) ==
  LET words == textLength \div CharsPerWord
  IN  [num |-> Max(words * 60, MinSeconds * WordsPerMinute), den |-> WordsPerMinute]

\* the older client component: min(textLength / 50, 60)
CappedDuration(textLength) ==
  [num |-> Min(textLength, ClientMaxSeconds * ClientCharsPerSecond),
   den |-> ClientCharsPerSecond]

\* Math.floor(duration * sampleRate)
SampleCount(duration) == (duration.num * SampleRate) \div duration.den

\* the buffer a generator builds: new ArrayBuffer(44 + samples * 2) with the
\* header written into its first 44 bytes
WavBuffer(duration) ==
  LET samples == SampleCount(duration)
  IN  [duration |-> duration,
       samples |-> samples,
       byteLength |-> WavHeaderLen + samples * 2,
       header |-> WavHeader(samples)]

\* generateFallbackAudio of the synthesis route
GenerateFallbackAudio(textLength) == WavBuffer(SpeechDuration(textLength))

\* generateFallbackAudio of the client components
ClientFallbackAudioOld(textLength) == WavBuffer(CappedDuration(textLength))
ClientFallbackAudioNew(textLength) == WavBuffer(SpeechDuration(textLength))

Generators == {"route", "clientOld", "clientNew"}

RunGenerator(gen, textLength) ==
  CASE gen = "route" -> GenerateFallbackAudio(textLength)
    [] gen = "clientOld" -> ClientFallbackAudioOld(textLength)
    [] gen = "clientNew" -> ClientFallbackAudioNew(textLength)

\* what a decoder reads back from the header
GetUint16(view, offset) == view[offset + 1] + 256 * view[offset + 2]
GetUint32(view, offset) ==
  view[offset + 1] + 256 * view[offset + 2] + 65536 * view[offset + 3]
    + 16777216 * view[offset + 4]

(***************************************************************************)
(* The synthesis endpoint: POST /api/text-to-speech.                       *)
(***************************************************************************)
\* estimateDuration: text.split(/\s+/).length words, ceil(words / 150)
\* minutes; the label is `${minutes}:00`
SplitWordCount(text) ==
  1 + Cardinality({i \in 1..Len(text) :
                     text[i] \in Whitespace /\ (i = 1 \/ text[i - 1] \notin Whitespace)})

EstimateDuration(text) ==
  [minutes |-> (SplitWordCount(text) + WordsPerMinute - 1) \div WordsPerMinute,
   seconds |-> "00"]

VoiceMapping ==
  [professional |-> [lang |-> "en", tld |-> "com"],
   casual |-> [lang |-> "en", tld |-> "co.uk"],
   academic |-> [lang |-> "en", tld |-> "com.au"],
   friendly |-> [lang |-> "en", tld |-> "ca"]]

DefaultVoice == [lang |-> "en", tld |-> "com"]

\* voiceSettings before line 67 ran
NoVoice == [lang |-> "none", tld |-> "none"]

\* names every object literal inherits; VOICE_MAPPING[name] is then a truthy
\* member of Object.prototype, which has neither lang nor tld
InheritedKeys == {"constructor", "toString", "valueOf", "hasOwnProperty"}

\* VOICE_MAPPING[options.voice] || { lang: 'en', tld: 'com' }
ResolveVoice(label) ==
  IF label \in DOMAIN VoiceMapping THEN VoiceMapping[label]
  ELSE IF label \in InheritedKeys THEN [lang |-> "undefined", tld |-> "undefined"]
  ELSE DefaultVoice

NoAudio == [kind |-> "none"]
NoDuration == [minutes |-> 0, seconds |-> "none"]

\* NextResponse.json({error}, {status})
ErrorResponse(status, error) ==
  [status |-> status, success |-> FALSE, audioUrl |-> NoAudio,
   duration |-> NoDuration, voice |-> <<>>, warning |-> "",
   isFallback |-> FALSE, error |-> error]

\* the response of the try block: the audio file the backend wrote
SuccessResponse(fileName, clean, voiceSettings) ==
  [status |-> 200, success |-> TRUE,
   audioUrl |-> [kind |-> "file", name |-> fileName],
   duration |-> EstimateDuration(clean),
   voice |-> <<"gTTS", voiceSettings.lang, voiceSettings.tld>>,
   warning |-> "", isFallback |-> FALSE, error |-> ""]

PlaceholderWarning ==
  "Audio synthesis temporarily unavailable - using placeholder audio."

\* the response of the catch (ttsError) block: clean is cleanText as it is
\* when the block runs, text the text of the request
FallbackResponseMutRethrow(text, clean) ==
  ErrorResponse(500, "TTS generation failed")

FallbackResponse(text, clean) ==
  [status |-> 200, success |-> TRUE,
   audioUrl |-> [kind |-> "data", wav |-> GenerateFallbackAudio(Len(clean))],
   duration |-> EstimateDuration(text),
   voice |-> <<"Placeholder Audio">>,
   warning |-> PlaceholderWarning, isFallback |-> TRUE, error |-> ""]

NoResponse == ErrorResponse(0, "")

\* request texts: short ones with and without markup
ShortTexts ==
  { <<>>,
    <<" ">>,
    <<"H","i"," ","t","h","e","r","e",".">>,
    <<"#","#"," ","H","i"," ","[","P","A","U","S","E","]"," ","*","y","o","u","*","\n">> }

\* request texts around and beyond the truncation limit
LongTexts ==
  { Rep(<<"a">>, MaxTtsLen),
    Rep(<<"a">>, MaxTtsLen + 1),
    Rep(<<"a","b","c"," ">>, (MaxTtsLen + ExtraLen) \div 4) }

SampleVoices ==
  {"professional", "casual", "academic", "friendly", "unknown-voice", "",
   "constructor"}

\* the parsed body of a request; hasText and hasOptions tell whether the
\* body has the member at all
TtsRequests ==
  [bodyOk : {TRUE}, hasText : {TRUE}, text : ShortTexts,
   hasOptions : {TRUE}, voice : SampleVoices]
  \cup [bodyOk : {TRUE}, hasText : {TRUE}, text : LongTexts,
        hasOptions : {TRUE}, voice : {"professional"}]
  \cup [bodyOk : {TRUE}, hasText : {TRUE}, text : ShortTexts,
        hasOptions : {FALSE}, voice : {""}]
  \cup [bodyOk : {TRUE}, hasText : {FALSE}, text : {<<>>},
        hasOptions : BOOLEAN, voice : {""}]
  \cup [bodyOk : {FALSE}, hasText : {FALSE}, text : {<<>>},
        hasOptions : {FALSE}, voice : {""}]

NoTtsRequest ==
  [bodyOk |-> FALSE, hasText |-> FALSE, text |-> <<>>, hasOptions |-> FALSE,
   voice |-> "none"]

\* `podcast_${Date.now()}.mp3`
AudioFileName(now) == <<"podcast_", now, ".mp3">>

\* values of Date.now()
Timestamps == {1}

\* the close handler's verdict: code === 0 && stdout.includes('TTS_SUCCESS')
CloseOutcome(code, marker) ==
  IF code = 0 /\ marker THEN "resolved" ELSE "rejected"

\* clearTimeout(timeout) in the second close handler
TimerAfterCloseMutKeep(t) == t

TimerAfterClose(t) == IF t = "armed" THEN "cancelled" ELSE t

\* existsSync(outputPath) after generateWithGTTS returned
ArtifactCreatedMutSkip(file) == TRUE

ArtifactCreated(file) == file # "absent"

VARIABLES
  ttsPc,        \* idle, received, awaiting (generateWithGTTS pending), done
  ttsReq,       \* the parsed request body
  cleaned,      \* cleanText as the chain of replacements left it
  cleanText,    \* the handler's cleanText variable
  backendInput, \* the text argument of generateWithGTTS
  fileName,     \* the audio file's name
  voiceSettings, \* the handler's voiceSettings constant
  promise,      \* the promise of generateWithGTTS: none, pending, resolved, rejected
  settledBy,    \* the event that settled it, and the output file as the handler saw it
  proc,         \* the child process: none, running, errored, closed
  timer,        \* the 90-second timer: none, armed, fired, cancelled
  killSent,     \* pythonProcess.kill('SIGTERM') was called
  closeSeen,    \* the exit code and marker the 'close' handlers saw
  outFile,      \* the file at outputPath: absent, empty, full
  cleanup,      \* the 30-minute deletion timer: none, armed, fired
  ttsResp       \* the response sent

ttsVars ==
  <<ttsPc, ttsReq, cleaned, cleanText, backendInput, fileName, voiceSettings, promise, settledBy, proc,
    timer, killSent, closeSeen, outFile, cleanup, ttsResp>>

VARIABLES
  exPc,        \* idle, received, python, cascade, gate, done
  exReq,       \* the form fields of the request
  exEnv,       \* what each backend does with this document when it is run
  exIdx,       \* the loop position in extractTextWithFallback
  exLastError, \* lastError of extractTextWithFallback
  exResult,    \* the handler's result variable
  exTried,     \* the backends run so far, in order
  upload,      \* the temporary copy of the document: never, written, unlinked
  artifact,    \* the text file the external tool leaves: absent, present, unlinked
  pyProc,      \* the external tool's process: none, running, errored, closed
  exResp       \* the response sent

exVars ==
  <<exPc, exReq, exEnv, exIdx, exLastError, exResult, exTried, upload, artifact,
    pyProc, exResp>>

VARIABLES
  est          \* the last text given to estimateDuration, and its label

VARIABLES
  conc         \* two requests handled at the same time, and their paths

VARIABLES
  wav          \* the last buffer a generator built, with its generator and input

VARIABLES
  scan         \* the last document given to the heuristic scan, and its result

VARIABLES
  client       \* the last run of a client's generate handler on a PDF

VARIABLES
  ui           \* the state of the mounted QuizGeneratorSection

\* no 'close' event yet
NoClose == [seen |-> FALSE, code |-> 0, marker |-> FALSE]

NotSettled == [by |-> "none", code |-> 0, marker |-> FALSE, file |-> "absent"]

TtsInit ==
  /\ ttsPc = "idle"
  /\ ttsReq = NoTtsRequest
  /\ cleaned = <<>>
  /\ cleanText = <<>>
  /\ backendInput = <<>>
  /\ fileName = <<>>
  /\ voiceSettings = NoVoice
  /\ promise = "none"
  /\ settledBy = NotSettled
  /\ proc = "none"
  /\ timer = "none"
  /\ killSent = FALSE
  /\ closeSeen = NoClose
  /\ outFile = "absent"
  /\ cleanup = "none"
  /\ ttsResp = NoResponse

\* no request is being handled and no generator result is held
AllIdle ==
  /\ ttsPc = "idle"
  /\ exPc = "idle"
  /\ wav.gen = "none"
  /\ ~est.asked
  /\ conc.kind = "none"
  /\ ~scan.asked
  /\ ~client.asked
  /\ ~ui.mounted

\* a request arrives
TtsRequest(req) ==
  /\ AllIdle
  /\ ttsPc' = "received"
  /\ ttsReq' = req
  /\ UNCHANGED <<cleaned, cleanText, backendInput, fileName, voiceSettings, promise, settledBy,
                 proc, timer, killSent, closeSeen, outFile, cleanup, ttsResp>>
  /\ UNCHANGED <<exVars, wav, est, conc, scan, client, ui>>

\* the handler ends with a response before any backend was started
TtsRespondEarly(resp, replaced, clean) ==
  /\ ttsPc' = "done"
  /\ ttsResp' = resp
  /\ cleaned' = replaced
  /\ cleanText' = clean
  /\ UNCHANGED <<ttsReq, backendInput, fileName, voiceSettings, promise, settledBy, proc, timer,
                 killSent, closeSeen, outFile, cleanup>>

\* POST up to the await of generateWithGTTS: parse, validate, clean, truncate,
\* prepare the directory, start the child and its timer.  dirOk: whether
\* ensureAudioDir succeeds; now: Date.now()
TtsPost(dirOk, now) ==
  /\ ttsPc = "received"
  /\ IF ~ttsReq.bodyOk
     THEN TtsRespondEarly(ErrorResponse(500, "TTS generation failed"), <<>>, <<>>)
     ELSE IF ~ttsReq.hasText \/ Len(ttsReq.text) = 0
     THEN TtsRespondEarly(ErrorResponse(400, "No text provided"), <<>>, <<>>)
     ELSE LET replaced == CleanForTTS(ttsReq.text)
              clean == TruncateForTTS(replaced)
          IN  IF ~ttsReq.hasOptions \/ ~dirOk
              THEN TtsRespondEarly(ErrorResponse(500, "TTS generation failed"),
                                   replaced, clean)
              ELSE /\ ttsPc' = "awaiting"
                   /\ cleaned' = replaced
                   /\ cleanText' = clean
                   /\ backendInput' = clean
                   /\ fileName' = AudioFileName(now)
                   /\ voiceSettings' = ResolveVoice(ttsReq.voice)
                   /\ promise' = "pending"
                   /\ proc' = "running"
                   /\ timer' = "armed"
                   /\ UNCHANGED <<ttsReq, settledBy, killSent, closeSeen, outFile, cleanup,
                                  ttsResp>>
  /\ UNCHANGED <<exVars, wav, est, conc, scan, client, ui>>

\* the state of a promise after resolve() or reject(): only the first call
\* settles it
SettleOnceMutLastCall(state, outcome) == outcome

SettleOnce(state, outcome) == IF state = "pending" THEN outcome ELSE state

\* resolve() or reject() and, when that settles the promise, the rest of the
\* handler: the try block after the await, or the catch (ttsError) block
Settle(outcome, by, code, marker) ==
  IF promise = "pending"
  THEN /\ promise' = SettleOnce(promise, outcome)
       /\ settledBy' = [by |-> by, code |-> code, marker |-> marker, file |-> outFile]
       /\ ttsPc' = "done"
       /\ IF outcome = "resolved" /\ ArtifactCreated(outFile)
          THEN /\ ttsResp' = SuccessResponse(fileName, cleanText, voiceSettings)
               /\ cleanup' = "armed"
          ELSE /\ ttsResp' = FallbackResponse(ttsReq.text, cleanText)
               /\ cleanup' = cleanup
  ELSE /\ promise' = SettleOnce(promise, outcome)
       /\ UNCHANGED <<settledBy, ttsPc, ttsResp, cleanup>>

\* the child writes its output file: nothing yet (empty) or audio (full)
ProcWriteFile(content) ==
  /\ proc = "running"
  /\ outFile # content
  /\ outFile' = content
  /\ UNCHANGED <<ttsPc, ttsReq, cleaned, cleanText, backendInput, fileName, voiceSettings, promise,
                 settledBy, proc, timer, killSent, closeSeen, cleanup, ttsResp>>
  /\ UNCHANGED <<exVars, wav, est, conc, scan, client, ui>>

\* pythonProcess.on('error'): the interpreter could not be started, so it
\* wrote nothing
ProcError ==
  /\ proc = "running"
  /\ outFile = "absent"
  /\ proc' = "errored"
  /\ Settle("rejected", "error", 0, FALSE)
  /\ UNCHANGED <<ttsReq, cleaned, cleanText, backendInput, fileName, voiceSettings, timer,
                 killSent, closeSeen, outFile>>
  /\ UNCHANGED <<exVars, wav, est, conc, scan, client, ui>>

\* both pythonProcess.on('close') handlers; code -1 stands for null (the child
\* was ended by a signal)
ProcClose(code, marker) ==
  /\ proc \in {"running", "errored"}
  /\ proc' = "closed"
  /\ Settle(CloseOutcome(code, marker), "close", code, marker)
  /\ timer' = TimerAfterClose(timer)
  /\ closeSeen' = [seen |-> TRUE, code |-> code, marker |-> marker]
  /\ UNCHANGED <<ttsReq, cleaned, cleanText, backendInput, fileName, voiceSettings,
                 killSent, outFile>>
  /\ UNCHANGED <<exVars, wav, est, conc, scan, client, ui>>

\* the setTimeout callback of generateWithGTTS
TimerFire ==
  /\ timer = "armed"
  /\ timer' = "fired"
  /\ killSent' = TRUE
  /\ Settle("rejected", "timeout", 0, FALSE)
  /\ UNCHANGED <<ttsReq, cleaned, cleanText, backendInput, fileName, voiceSettings, proc,
                 closeSeen, outFile>>
  /\ UNCHANGED <<exVars, wav, est, conc, scan, client, ui>>

\* the setTimeout callback of POST: unlink(outputPath) after 30 minutes
CleanupFire ==
  /\ cleanup = "armed"
  /\ cleanup' = "fired"
  /\ outFile' = "absent"
  /\ UNCHANGED <<ttsPc, ttsReq, cleaned, cleanText, backendInput, fileName, voiceSettings, promise,
                 settledBy, proc, timer, killSent, closeSeen, ttsResp>>
  /\ UNCHANGED <<exVars, wav, est, conc, scan, client, ui>>

\* the next request is looked at
TtsReset ==
  /\ ttsPc = "done"
  /\ ttsPc' = "idle"
  /\ ttsReq' = NoTtsRequest
  /\ cleaned' = <<>>
  /\ cleanText' = <<>>
  /\ backendInput' = <<>>
  /\ fileName' = <<>>
  /\ voiceSettings' = NoVoice
  /\ promise' = "none"
  /\ settledBy' = NotSettled
  /\ proc' = "none"
  /\ timer' = "none"
  /\ killSent' = FALSE
  /\ closeSeen' = NoClose
  /\ outFile' = "absent"
  /\ cleanup' = "none"
  /\ ttsResp' = NoResponse
  /\ UNCHANGED <<exVars, wav, est, conc, scan, client, ui>>

(***************************************************************************)
(* The extraction endpoint: POST /api/extract-pdf.                         *)
(***************************************************************************)
NoMetadata == [method |-> "none", total_characters |-> 0]

NoResult == [text |-> <<>>, metadata |-> NoMetadata, success |-> FALSE]

\* runPythonExtraction's result when the child exits 0: the produced file's
\* text, or the captured stdout when the file cannot be read
PythonResult(outcome) ==
  [text |-> outcome.text,
   metadata |-> [method |-> IF outcome.kind = "file" THEN "Python (auto)"
                            ELSE "Python (stdout)",
                 total_characters |-> Len(outcome.text)],
   success |-> TRUE]

\* extractTextWithPdfParse's result for the text the parser returns
PdfParseResult(text) ==
  [text |-> text,
   metadata |-> [method |-> "pdf-parse", total_characters |-> Len(text)],
   success |-> Len(text) > 0]

\* extractTextWithJavaScript's result for the extractedText its two passes
\* collected
JavaScriptResult(extractedText) ==
  [text |-> Trim(extractedText),
   metadata |-> [method |-> "JavaScript (Basic)",
                 total_characters |-> Len(extractedText)],
   success |-> Len(extractedText) > 0]

\* the two checks of the form's file: the error of the 400 response, or ""
UploadRejectionMutAnyType(req) ==
  IF ~req.hasFile THEN "No file provided" ELSE ""

UploadRejection(req) ==
  IF ~req.hasFile THEN "No file provided"
  ELSE IF ~req.isPdf THEN "File must be a PDF"
  ELSE ""

\* the exit code of the external tool
ExitCode(kind) == IF kind \in {"file", "stdout"} THEN 0 ELSE 1

\* POST's finally block: unlink(filePath), a failure only logged
UploadAfterFinallyMutSkip(up) == up

UploadAfterFinally(up) == "unlinked"

\* the text file after the close handler ran: unlink(outputPath) follows a
\* successful readFile and nothing else
ArtifactAfterClose(code, readable, art) ==
  IF code = 0 /\ readable /\ art = "present" THEN "unlinked" ELSE art

\* the test of the loop in extractTextWithFallback
CascadeAccepts(result) == result.success /\ Len(result.text) > CascadeGate

\* the test before the 422 response
FailsEndpointGateMutFlagOnly(result) == ~result.success

FailsEndpointGate(result) == ~result.success \/ Len(result.text) < EndpointGate

ExResponse(status, success, text, metadata, error) ==
  [status |-> status, success |-> success, text |-> text,
   metadata |-> metadata, error |-> error]

NoExResponse == ExResponse(0, FALSE, <<>>, NoMetadata, "")

\* lengths of the texts the backends yield: none, and around the gate
YieldLens == {0} \cup ((EndpointGate - 1)..(EndpointGate + MaxYield))

\* what the external backend does when it is run
PyOutcomes ==
  [kind : {"prepFail", "spawnError", "exitNonzero"}, text : {<<>>}]
  \cup {[kind |-> "file", text |-> Rep(<<"p">>, n)] : n \in YieldLens}
  \cup {[kind |-> "stdout", text |-> Rep(<<"o">>, n)] : n \in YieldLens}

\* what pdf-parse does when it is run
LibOutcomes ==
  {[kind |-> "raise", text |-> <<>>]}
  \cup {[kind |-> "text", text |-> Rep(<<"l">>, n)] : n \in YieldLens}

\* the extractedText the heuristic scan collects: nothing, or a run and the
\* separator appended to it
HeurOutcomes ==
  {<<>>} \cup {Rep(<<"h">>, n) \o <<" ">> : n \in YieldLens \ {0}}

ExRequests == [hasFile : BOOLEAN, isPdf : BOOLEAN, usePython : BOOLEAN]

NoExRequest == [hasFile |-> FALSE, isPdf |-> FALSE, usePython |-> FALSE]

ExEnvs == [py : PyOutcomes, lib : LibOutcomes, heur : HeurOutcomes]

NoExEnv ==
  [py |-> [kind |-> "none", text |-> <<>>],
   lib |-> [kind |-> "none", text |-> <<>>],
   heur |-> <<>>]

\* the methods array of extractTextWithFallback
CascadeMethods == <<"pdf-parse", "JavaScript (Basic)">>

ExInit ==
  /\ exPc = "idle"
  /\ exReq = NoExRequest
  /\ exEnv = NoExEnv
  /\ exIdx = 0
  /\ exLastError = ""
  /\ exResult = NoResult
  /\ exTried = <<>>
  /\ upload = "never"
  /\ artifact = "absent"
  /\ pyProc = "none"
  /\ exResp = NoExResponse

(***************************************************************************)
(* The heuristic scan, tabulated.  A document is given by the runs the two *)
(* regular expressions match in it, each already stripped of unprintable   *)
(* characters and trimmed.                                                 *)
(***************************************************************************)
\* one of the two loops: every run longer than the noise threshold is
\* appended to extractedText, followed by the separator
RECURSIVE AppendKept(_, _, _, _)
AppendKept(extractedText, runs, noise, sep) ==
  IF runs = <<>> THEN extractedText
  ELSE AppendKept(IF Len(Head(runs)) > noise
                  THEN extractedText \o Head(runs) \o sep
                  ELSE extractedText,
                  Tail(runs), noise, sep)

\* the loop over the stream...endstream matches
StreamPass(doc) == AppendKept(<<>>, doc.streams, StreamNoise, <<"\n">>)

\* the test before the loop over the [...] matches
SecondPassRuns(extractedText) == Len(extractedText) < SecondPassBelow

\* extractedText when both loops are through
ExtractedText(doc) ==
  IF SecondPassRuns(StreamPass(doc))
  THEN AppendKept(StreamPass(doc), doc.literals, LiteralNoise, <<" ">>)
  ELSE StreamPass(doc)

\* the sequences of at most n elements of a set
SeqsUpTo(set, n) == UNION {[1..k -> set] : k \in 0..n}

\* runs at and around the thresholds
StreamRuns ==
  {Rep(<<"s">>, n) : n \in {StreamNoise, StreamNoise + 1, SecondPassBelow}}

LiteralRuns == {Rep(<<"b">>, n) : n \in {LiteralNoise, LiteralNoise + 1}}

ScanDocs ==
  [streams : SeqsUpTo(StreamRuns, MaxRuns), literals : SeqsUpTo(LiteralRuns, MaxRuns)]

NoScan == [asked |-> FALSE, doc |-> [streams |-> <<>>, literals |-> <<>>],
           result |-> NoResult]

(***************************************************************************)
(* The placeholder generators, tabulated.                                  *)
(***************************************************************************)
NoWav ==
  [gen |-> "none", textLength |-> 0,
   buf |-> [duration |-> [num |-> 0, den |-> 1], samples |-> 0,
            byteLength |-> 0, header |-> <<>>]]

\* text lengths the generators are run on
WavLens ==
  (0..MaxWavLen)
  \cup {ClientMaxSeconds * ClientCharsPerSecond - 1,
        ClientMaxSeconds * ClientCharsPerSecond,
        ClientMaxSeconds * ClientCharsPerSecond + 1,
        MaxTtsLen, MaxTtsLen + Len(ContinuationNotice)}

\* a request arrives: its form fields, and the document, given by what each
\* backend does with it
ExRequest(req, env) ==
  /\ AllIdle
  /\ exPc' = "received"
  /\ exReq' = req
  /\ exEnv' = env
  /\ UNCHANGED <<exIdx, exLastError, exResult, exTried, upload, artifact, pyProc,
                 exResp>>
  /\ UNCHANGED <<ttsVars, wav, est, conc, scan, client, ui>>

\* POST up to the choice of the backend: the two 400 responses
ExPost ==
  /\ exPc = "received"
  /\ IF UploadRejection(exReq) # ""
     THEN /\ exResp' = ExResponse(400, FALSE, <<>>, NoMetadata, UploadRejection(exReq))
          /\ exPc' = "done"
          /\ exIdx' = exIdx
     ELSE /\ exResp' = exResp
          /\ exPc' = IF exReq.usePython THEN "python" ELSE "cascade"
          /\ exIdx' = 1
  /\ UNCHANGED <<exReq, exEnv, exLastError, exResult, exTried, upload, artifact,
                 pyProc>>
  /\ UNCHANGED <<ttsVars, wav, est, conc, scan, client, ui>>

\* the usePython branch up to the await of runPythonExtraction: the uploads
\* directory, the temporary file, the spawn.  When the directory or the file
\* cannot be written, catch (pythonError) starts the JavaScript cascade
ExPython ==
  /\ exPc = "python"
  /\ exTried' = Append(exTried, "python")
  /\ IF exEnv.py.kind = "prepFail"
     THEN /\ exPc' = "cascade"
          /\ UNCHANGED <<upload, pyProc>>
     ELSE /\ exPc' = "awaitPython"
          /\ upload' = "written"
          /\ pyProc' = "running"
  /\ UNCHANGED <<exReq, exEnv, exIdx, exLastError, exResult, artifact, exResp>>
  /\ UNCHANGED <<ttsVars, wav, est, conc, scan, client, ui>>

\* the external tool writes its text file next to the document
PyWriteArtifact ==
  /\ pyProc = "running"
  /\ exEnv.py.kind \in {"file", "stdout", "exitNonzero"}
  /\ artifact = "absent"
  /\ artifact' = "present"
  /\ UNCHANGED <<exPc, exReq, exEnv, exIdx, exLastError, exResult, exTried, upload,
                 pyProc, exResp>>
  /\ UNCHANGED <<ttsVars, wav, est, conc, scan, client, ui>>

\* pythonProcess.on('error'): the interpreter could not be started.  The
\* promise is rejected, POST's finally block runs and catch (pythonError)
\* starts the JavaScript cascade
PyError ==
  /\ exPc = "awaitPython"
  /\ pyProc = "running"
  /\ exEnv.py.kind = "spawnError"
  /\ pyProc' = "errored"
  /\ upload' = UploadAfterFinally(upload)
  /\ exPc' = "cascade"
  /\ UNCHANGED <<exReq, exEnv, exIdx, exLastError, exResult, exTried, artifact,
                 exResp>>
  /\ UNCHANGED <<ttsVars, wav, est, conc, scan, client, ui>>

\* pythonProcess.on('close').  With code 0 the text file is read and, when the
\* read succeeded, unlinked; the promise resolves with the file's text or with
\* the captured stdout.  With any other code the promise is rejected.  Then
\* POST's finally block runs.  After an 'error' the promise is settled already
PyClose ==
  /\ pyProc \in {"running", "errored"}
  /\ pyProc' = "closed"
  /\ IF pyProc = "errored"
     THEN UNCHANGED <<exPc, exResult, upload, artifact>>
     ELSE /\ exPc = "awaitPython"
          /\ exEnv.py.kind \in {"file", "stdout", "exitNonzero"}
          /\ exEnv.py.kind = "file" => artifact = "present"
          /\ upload' = UploadAfterFinally(upload)
          /\ artifact' = ArtifactAfterClose(ExitCode(exEnv.py.kind),
                                            exEnv.py.kind = "file", artifact)
          /\ IF ExitCode(exEnv.py.kind) = 0
             THEN /\ exResult' = PythonResult(exEnv.py)
                  /\ exPc' = "gate"
             ELSE /\ exResult' = exResult
                  /\ exPc' = "cascade"
  /\ UNCHANGED <<exReq, exEnv, exIdx, exLastError, exTried, exResp>>
  /\ UNCHANGED <<ttsVars, wav, est, conc, scan, client, ui>>

\* the outcome of method i of the cascade: raised, or its result
CascadeRaises(i) == i = 1 /\ exEnv.lib.kind = "raise"

CascadeResult(i) ==
  IF i = 1 THEN PdfParseResult(exEnv.lib.text) ELSE JavaScriptResult(exEnv.heur)

\* whether the loop of extractTextWithFallback goes on after method i was
\* not accepted: the catch is inside the loop, so a raise does not leave it
CascadeContinuesMutRethrow(i, raised) == ~raised /\ i < Len(CascadeMethods)

CascadeContinues(i, raised) == i < Len(CascadeMethods)

\* one turn of the loop of extractTextWithFallback; after the last method the
\* function throws, which POST answers in its outer catch
ExCascadeStep ==
  /\ exPc = "cascade"
  /\ exTried' = Append(exTried, CascadeMethods[exIdx])
  /\ LET raised == CascadeRaises(exIdx)
         result == CascadeResult(exIdx)
         lastError == IF raised THEN "pdf-parse extraction failed" ELSE exLastError
     IN  IF ~raised /\ CascadeAccepts(result)
         THEN /\ exResult' = result
              /\ exPc' = "gate"
              /\ UNCHANGED <<exIdx, exLastError, exResp>>
         ELSE /\ exLastError' = lastError
              /\ exResult' = exResult
              /\ IF CascadeContinues(exIdx, raised)
                 THEN /\ exIdx' = exIdx + 1
                      /\ exPc' = "cascade"
                      /\ exResp' = exResp
                 ELSE /\ exIdx' = exIdx
                      /\ exPc' = "done"
                      /\ exResp' = ExResponse(500, FALSE, <<>>, NoMetadata,
                                     IF lastError # "" THEN lastError
                                     ELSE "All extraction methods failed")
  /\ UNCHANGED <<exReq, exEnv, upload, artifact, pyProc>>
  /\ UNCHANGED <<ttsVars, wav, est, conc, scan, client, ui>>

\* the check of result and the 422 or 200 response
ExGate ==
  /\ exPc = "gate"
  /\ exPc' = "done"
  /\ exResp' = IF FailsEndpointGate(exResult)
               THEN ExResponse(422, FALSE, <<>>, exResult.metadata,
                               "Failed to extract meaningful text from PDF")
               ELSE ExResponse(200, TRUE, exResult.text, exResult.metadata, "")
  /\ UNCHANGED <<exReq, exEnv, exIdx, exLastError, exResult, exTried, upload,
                 artifact, pyProc>>
  /\ UNCHANGED <<ttsVars, wav, est, conc, scan, client, ui>>

ExReset ==
  /\ exPc = "done"
  /\ exPc' = "idle"
  /\ exReq' = NoExRequest
  /\ exEnv' = NoExEnv
  /\ exIdx' = 0
  /\ exLastError' = ""
  /\ exResult' = NoResult
  /\ exTried' = <<>>
  /\ upload' = "never"
  /\ artifact' = "absent"
  /\ pyProc' = "none"
  /\ exResp' = NoExResponse
  /\ UNCHANGED <<ttsVars, wav, est, conc, scan, client, ui>>

\* a generator is called with a text length
WavGenerate(gen, textLength) ==
  /\ AllIdle
  /\ wav' = [gen |-> gen, textLength |-> textLength,
             buf |-> RunGenerator(gen, textLength)]
  /\ UNCHANGED <<ttsVars, exVars, est, conc, scan, client, ui>>

WavReset ==
  /\ wav # NoWav
  /\ wav' = NoWav
  /\ UNCHANGED <<ttsVars, exVars, est, conc, scan, client, ui>>

\* extractTextWithJavaScript is called with a document
ScanAsk(doc) ==
  /\ AllIdle
  /\ scan' = [asked |-> TRUE, doc |-> doc,
              result |-> JavaScriptResult(ExtractedText(doc))]
  /\ UNCHANGED <<ttsVars, exVars, wav, est, conc, client, ui>>

ScanReset ==
  /\ scan.asked
  /\ scan' = NoScan
  /\ UNCHANGED <<ttsVars, exVars, wav, est, conc, client, ui>>

(***************************************************************************)
(* estimateDuration, tabulated.                                            *)
(***************************************************************************)
\* a text of n one-letter words with single blanks between them
Words(n) ==
  [i \in 1..(IF n = 0 THEN 0 ELSE 2 * n - 1) |-> IF i % 2 = 1 THEN "w" ELSE " "]

\* what a text may begin or end with
Paddings == {<<>>, <<" ">>}

EstTexts ==
  {l \o Words(n) \o r : n \in 0..MaxEstWords, l \in Paddings, r \in Paddings}

NoEst == [asked |-> FALSE, text |-> <<>>, label |-> NoDuration]

\* estimateDuration is called with a text
EstAsk(text) ==
  /\ AllIdle
  /\ est' = [asked |-> TRUE, text |-> text, label |-> EstimateDuration(text)]
  /\ UNCHANGED <<ttsVars, exVars, wav, conc, scan, client, ui>>

EstReset ==
  /\ est.asked
  /\ est' = NoEst
  /\ UNCHANGED <<ttsVars, exVars, wav, conc, scan, client, ui>>

(***************************************************************************)
(* The paths of two requests that are handled at the same time.            *)
(***************************************************************************)
\* String.prototype.replace(pat, rep) with a string pattern: the first
\* occurrence only
ReplaceFirst(s, pat, rep) ==
  LET k == Len(pat)
      hits == {i \in 1..(Len(s) - k + 1) : SubSeq(s, i, i + k - 1) = pat}
  IN  IF hits = {} THEN s
      ELSE LET i == CHOOSE h \in hits : \A g \in hits : h <= g
           IN  SubSeq(s, 1, i - 1) \o rep \o SubSeq(s, i + k, Len(s))

\* join(uploadsDir, `${timestamp}_${file.name}`)
UploadPath(now, name) == <<"uploads/", now, "_">> \o name

\* pdfPath.replace('.pdf', '_extracted.txt')
ExtractedPath(pdfPath) ==
  ReplaceFirst(pdfPath, <<".", "p", "d", "f">>, <<"_extracted.txt">>)

\* join(audioDir, fileName)
AudioPath(now) == <<"public/audio/">> \o AudioFileName(now)

\* the files a request creates
RequestPaths(kind, now, name) ==
  IF kind = "extract"
  THEN {UploadPath(now, name), ExtractedPath(UploadPath(now, name))}
  ELSE {AudioPath(now)}

\* values of Date.now() and of file.name of concurrent requests
ConcTimestamps == {"1000", "1001"}

FileNames ==
  {<<"a", ".", "p", "d", "f">>, <<"b", ".", "p", "d", "f">>,
   <<"R", ".", "P", "D", "F">>}

NoConc == [kind |-> "none", first |-> {}, second |-> {}]

\* two requests of one kind are being handled: each computed its paths
ConcStart(kind, now1, name1, now2, name2) ==
  /\ AllIdle
  /\ conc' = [kind |-> kind,
              first |-> RequestPaths(kind, now1, name1),
              second |-> RequestPaths(kind, now2, name2)]
  /\ UNCHANGED <<ttsVars, exVars, wav, est, scan, client, ui>>

ConcReset ==
  /\ conc.kind # "none"
  /\ conc' = NoConc
  /\ UNCHANGED <<ttsVars, exVars, wav, est, scan, client, ui>>

(***************************************************************************)
(* The clients of the extraction endpoint: the quiz component and the      *)
(* podcast component, each with its own extractPdfText.                    *)
(***************************************************************************)
\* the three thresholds of a component: on the first response, on the retry's
\* response, and in the generate handler
FirstGate(purpose) == IF purpose = "quiz" THEN QuizFirstGate ELSE PodcastFirstGate

RetryGate(purpose) == IF purpose = "quiz" THEN QuizRetryGate ELSE PodcastRetryGate

HandlerGate(purpose) == IF purpose = "quiz" THEN QuizGate ELSE PodcastGate

\* response.ok
Ok(response) == response.status >= 200 /\ response.status <= 299

\* extractPdfText: the text it returns, or that it throws
Thrown == [thrown |-> TRUE, text |-> <<>>]

Returned(text) == [thrown |-> FALSE, text |-> text]

ExtractPdfText(purpose, first, retry) ==
  IF ~Ok(first)
  THEN IF ~Ok(retry) THEN Thrown
       ELSE IF ~retry.success \/ retry.text = <<>>
               \/ Len(retry.text) < RetryGate(purpose)
       THEN Thrown
       ELSE Returned(retry.text)
  ELSE IF ~first.success \/ first.text = <<>> THEN Thrown
  ELSE IF Len(first.text) < FirstGate(purpose) THEN Thrown
  ELSE Returned(first.text)

\* the handler's own check of fileContent after extractPdfText returned
HandlerAcceptsMutNoCheck(purpose, fileContent) == TRUE

HandlerAccepts(purpose, fileContent) == Len(fileContent) >= HandlerGate(purpose)

\* the answers the endpoint gives: 400, 422 or 500 without text, or 200 with
\* a text that passed its gate
ClientTextLens ==
  {EndpointGate, QuizGate - 1, QuizGate, PodcastGate - 1}
  \cup (PodcastGate..(PodcastGate + MaxClientExtra))

EndpointAnswers ==
  {[status |-> st, success |-> FALSE, text |-> <<>>] : st \in {400, 422, 500}}
  \cup {[status |-> 200, success |-> TRUE, text |-> Rep(<<"t">>, n)] :
          n \in ClientTextLens}

NoAnswer == [status |-> 0, success |-> FALSE, text |-> <<>>]

NoClient ==
  [asked |-> FALSE, purpose |-> "none", usePython |-> FALSE, first |-> NoAnswer,
   retried |-> FALSE, retry |-> NoAnswer, generated |-> FALSE, content |-> <<>>]

\* handleGenerateQuiz or handleGeneratePodcast with a PDF selected: the call
\* of extractPdfText, with the endpoint's answers to its one or two requests,
\* the handler's check, and the call of the generator or the error shown
ClientGenerate(purpose, isProduction, first, retry) ==
  /\ AllIdle
  /\ LET extracted == ExtractPdfText(purpose, first, retry)
         passes == ~extracted.thrown /\ HandlerAccepts(purpose, extracted.text)
     IN  client' = [asked |-> TRUE, purpose |-> purpose,
                    usePython |-> ~isProduction, first |-> first,
                    retried |-> ~Ok(first),
                    retry |-> IF Ok(first) THEN NoAnswer ELSE retry,
                    generated |-> passes,
                    content |-> IF passes THEN extracted.text ELSE <<>>]
  /\ UNCHANGED <<ttsVars, exVars, wav, est, conc, scan, ui>>

ClientReset ==
  /\ client.asked
  /\ client' = NoClient
  /\ UNCHANGED <<ttsVars, exVars, wav, est, conc, scan, ui>>

(***************************************************************************)
(* The quiz-taking component QuizGeneratorSection.  A quiz is given by the *)
(* number of its questions, whose ids are 1..n; 0 stands for null.         *)
(***************************************************************************)
\* the useState initial values
NoUi ==
  [mounted |-> FALSE, selectedFile |-> FALSE, isGenerating |-> FALSE,
   generatedQuiz |-> 0, currentQuestion |-> 0, selectedAnswers |-> {},
   quizCompleted |-> FALSE, showResults |-> FALSE]

\* the panel shows the questions, or the results
QuestionsShown(u) ==
  u.mounted /\ ~u.isGenerating /\ u.generatedQuiz > 0 /\ ~u.showResults

ResultsShown(u) ==
  u.mounted /\ ~u.isGenerating /\ u.generatedQuiz > 0 /\ u.showResults

IsQuizFullyAnswered(u) ==
  /\ u.generatedQuiz > 0
  /\ \A id \in 1..u.generatedQuiz : id \in u.selectedAnswers

\* the three setters handleGenerateQuiz calls once the quiz is there
QuizLoaded(u, quiz) ==
  [u EXCEPT !.generatedQuiz = quiz, !.currentQuestion = 0, !.selectedAnswers = {}]

ResetQuiz(u) ==
  [u EXCEPT !.selectedAnswers = {}, !.currentQuestion = 0,
            !.quizCompleted = FALSE, !.showResults = FALSE]

CompleteQuiz(u) == [u EXCEPT !.quizCompleted = TRUE, !.showResults = TRUE]

\* the page with the component is opened
UiMount ==
  /\ AllIdle
  /\ ui' = [NoUi EXCEPT !.mounted = TRUE]
  /\ UNCHANGED <<ttsVars, exVars, wav, est, conc, scan, client>>

\* handleFileSelect
UiSelectFile ==
  /\ ui.mounted /\ ~ui.selectedFile
  /\ ui' = [ui EXCEPT !.selectedFile = TRUE]
  /\ UNCHANGED <<ttsVars, exVars, wav, est, conc, scan, client>>

\* the Generate button: handleGenerateQuiz up to its first await
UiGenerateStart ==
  /\ ui.mounted /\ ui.selectedFile /\ ~ui.isGenerating
  /\ ui' = [ui EXCEPT !.isGenerating = TRUE]
  /\ UNCHANGED <<ttsVars, exVars, wav, est, conc, scan, client>>

\* the rest of handleGenerateQuiz: the quiz arrived, or an error was caught
UiGenerateEnd(ok, quiz) ==
  /\ ui.mounted /\ ui.isGenerating
  /\ ui' = [(IF ok THEN QuizLoaded(ui, quiz) ELSE ui) EXCEPT !.isGenerating = FALSE]
  /\ UNCHANGED <<ttsVars, exVars, wav, est, conc, scan, client>>

\* an option of the question on display is clicked: handleAnswerSelect
UiAnswer ==
  /\ QuestionsShown(ui)
  /\ ui.currentQuestion + 1 \notin ui.selectedAnswers
  /\ ui' = [ui EXCEPT !.selectedAnswers = @ \cup {ui.currentQuestion + 1}]
  /\ UNCHANGED <<ttsVars, exVars, wav, est, conc, scan, client>>

\* the Previous and Next buttons
UiPrevious ==
  /\ QuestionsShown(ui)
  /\ ui.currentQuestion # 0
  /\ ui' = [ui EXCEPT !.currentQuestion = Max(0, @ - 1)]
  /\ UNCHANGED <<ttsVars, exVars, wav, est, conc, scan, client>>

UiNext ==
  /\ QuestionsShown(ui)
  /\ ui.currentQuestion # ui.generatedQuiz - 1
  /\ ui' = [ui EXCEPT !.currentQuestion = Min(ui.generatedQuiz - 1, @ + 1)]
  /\ UNCHANGED <<ttsVars, exVars, wav, est, conc, scan, client>>

\* the Show Results button, rendered when every question is answered
UiComplete ==
  /\ QuestionsShown(ui)
  /\ IsQuizFullyAnswered(ui)
  /\ ui' = CompleteQuiz(ui)
  /\ UNCHANGED <<ttsVars, exVars, wav, est, conc, scan, client>>

\* the Review Questions button of the results
UiReview ==
  /\ ResultsShown(ui)
  /\ ui' = [ui EXCEPT !.showResults = FALSE]
  /\ UNCHANGED <<ttsVars, exVars, wav, est, conc, scan, client>>

\* the Reset button of the questions and the Retake Quiz button of the results
UiResetQuiz ==
  /\ QuestionsShown(ui) \/ ResultsShown(ui)
  /\ ui # ResetQuiz(ui)
  /\ ui' = ResetQuiz(ui)
  /\ UNCHANGED <<ttsVars, exVars, wav, est, conc, scan, client>>

\* the page is left
UiUnmount ==
  /\ ui.mounted
  /\ ui' = NoUi
  /\ UNCHANGED <<ttsVars, exVars, wav, est, conc, scan, client>>

vars == <<ttsVars, exVars, wav, est, conc, scan, client, ui>>

Init ==
  /\ TtsInit /\ ExInit /\ wav = NoWav /\ est = NoEst /\ conc = NoConc
  /\ scan = NoScan
  /\ client = NoClient
  /\ ui = NoUi

Next ==
  \/ AllIdle /\ \E req \in TtsRequests : TtsRequest(req)
  \/ \E dirOk \in BOOLEAN, now \in Timestamps : TtsPost(dirOk, now)
  \/ \E content \in {"empty", "full"} : ProcWriteFile(content)
  \/ ProcError
  \/ \E code \in {0, 1, -1}, marker \in BOOLEAN : ProcClose(code, marker)
  \/ TimerFire
  \/ CleanupFire
  \/ TtsReset
  \/ AllIdle /\ \E req \in ExRequests, env \in ExEnvs : ExRequest(req, env)
  \/ ExPost
  \/ ExPython
  \/ PyWriteArtifact
  \/ PyError
  \/ PyClose
  \/ ExCascadeStep
  \/ ExGate
  \/ ExReset
  \/ AllIdle /\ \E gen \in Generators, textLength \in WavLens :
                  WavGenerate(gen, textLength)
  \/ WavReset
  \/ AllIdle /\ \E text \in EstTexts : EstAsk(text)
  \/ EstReset
  \/ AllIdle /\ \E kind \in {"extract", "synthesize"}, now1 \in ConcTimestamps,
                   now2 \in ConcTimestamps, name1 \in FileNames,
                   name2 \in FileNames :
                  ConcStart(kind, now1, name1, now2, name2)
  \/ ConcReset
  \/ AllIdle /\ \E doc \in ScanDocs : ScanAsk(doc)
  \/ ScanReset
  \/ AllIdle /\ \E purpose \in {"quiz", "podcast"}, isProduction \in BOOLEAN,
                   first \in EndpointAnswers, retry \in EndpointAnswers :
                  ClientGenerate(purpose, isProduction, first, retry)
  \/ ClientReset
  \/ UiMount
  \/ UiSelectFile
  \/ UiGenerateStart
  \/ \E ok \in BOOLEAN, quiz \in 1..MaxQuestions : UiGenerateEnd(ok, quiz)
  \/ UiAnswer
  \/ UiPrevious
  \/ UiNext
  \/ UiComplete
  \/ UiReview
  \/ UiResetQuiz
  \/ UiUnmount

Spec == Init /\ [][Next]_vars

\* requests whose handlers come to wait on a child: a few synthesis requests
\* and every extraction request, over documents that each backend either
\* fails on or reads enough text from
LiveTtsRequests ==
  [bodyOk : {TRUE}, hasText : {TRUE}, text : ShortTexts,
   hasOptions : {TRUE}, voice : {"professional"}]

LiveExEnvs ==
  [py : PyOutcomes,
   lib : {[kind |-> "raise", text |-> <<>>],
          [kind |-> "text", text |-> Rep(<<"l">>, EndpointGate + 1)]},
   heur : {<<>>, Rep(<<"h">>, EndpointGate + 1) \o <<" ">>}]

LiveNext ==
  \/ AllIdle /\ \E req \in LiveTtsRequests : TtsRequest(req)
  \/ \E dirOk \in BOOLEAN, now \in Timestamps : TtsPost(dirOk, now)
  \/ \E content \in {"empty", "full"} : ProcWriteFile(content)
  \/ ProcError
  \/ \E code \in {0, 1, -1}, marker \in BOOLEAN : ProcClose(code, marker)
  \/ TimerFire
  \/ CleanupFire
  \/ TtsReset
  \/ AllIdle /\ \E req \in ExRequests, env \in LiveExEnvs : ExRequest(req, env)
  \/ ExPost
  \/ ExPython
  \/ PyWriteArtifact
  \/ PyError
  \/ PyClose
  \/ ExCascadeStep
  \/ ExGate
  \/ ExReset

\* what the runtime guarantees once a handler waits on its child: a timer
\* that is armed fires, and a handler whose wait ended takes its next steps.
\* Nothing is guaranteed of the child process itself
Fairness ==
  /\ WF_vars(TimerFire)
  /\ WF_vars(ExCascadeStep)
  /\ WF_vars(ExGate)

FairSpec == Init /\ [][LiveNext]_vars /\ Fairness

(***************************************************************************)
(* The synthesis endpoint's responses.                                     *)
(***************************************************************************)
\* a child process was started for the request
BackendStarted == promise # "none"

\* the response is the fallback result for the request
IsFallbackResult(resp) ==
  /\ resp.status = 200
  /\ resp.success
  /\ resp.isFallback
  /\ resp.warning # ""
  /\ resp.audioUrl.kind = "data"

BackendAttemptFailed ==
  \/ settledBy.by \in {"error", "timeout"}
  \/ /\ settledBy.by = "close"
     /\ settledBy.code # 0 \/ ~settledBy.marker \/ settledBy.file = "absent"

\* C2: when the backend attempt fails in any of these ways, the response is
\* 200 with isFallback=true, a non-empty warning and the inline placeholder WAV
\* of generateFallbackAudio.
C2_FailureGivesFallback ==
  (ttsPc = "done" /\ BackendStarted /\ BackendAttemptFailed) =>
    /\ IsFallbackResult(ttsResp)
    /\ ttsResp.audioUrl.wav = GenerateFallbackAudio(Len(cleanText))

\* the child exited 0 with the marker, the file was not there, and the answer
\* is the fallback
C2_Witness ==
  /\ ttsPc = "done"
  /\ settledBy.by = "close" /\ settledBy.code = 0 /\ settledBy.marker
  /\ settledBy.file = "absent"
  /\ IsFallbackResult(ttsResp)

\* C6: when the cleaned text exceeds 5000 characters and synthesis falls back,
\* the placeholder is sized from the length of the cleaned text before
\* truncation.
C6_PlaceholderSizedFromOriginal ==
  (ttsPc = "done" /\ BackendStarted /\ ttsResp.isFallback
     /\ Len(cleaned) > MaxTtsLen) =>
    ttsResp.audioUrl.wav = GenerateFallbackAudio(Len(cleaned))

\* C7: the backend is handed the cleaned text unchanged when it has at most
\* 5000 characters, and otherwise its first 5000 characters followed by the
\* continuation notice; its length never exceeds 5000 plus the notice.
C7_BackendInputBounded ==
  BackendStarted =>
    /\ Len(cleaned) <= MaxTtsLen => backendInput = cleaned
    /\ Len(cleaned) > MaxTtsLen =>
         /\ SubSeq(backendInput, 1, MaxTtsLen) = SubSeq(cleaned, 1, MaxTtsLen)
         /\ SubSeq(backendInput, MaxTtsLen + 1, Len(backendInput))
              = ContinuationNotice
    /\ Len(backendInput) <= MaxTtsLen + Len(ContinuationNotice)

\* a backend was handed a truncated text, and another a text of exactly the
\* limit
C7_Witness ==
  /\ BackendStarted
  /\ Len(backendInput) = MaxTtsLen + Len(ContinuationNotice)
  /\ Len(cleaned) > MaxTtsLen + Len(ContinuationNotice)

\* C10: when the timer fires on a child that has not closed, SIGTERM is sent,
\* the attempt counts as failed and the request is answered by the fallback;
\* when the child closes first the timer is cancelled and no signal is sent.
C10_TimeoutKillsAndFallsBack ==
  /\ killSent <=> timer = "fired"
  /\ timer = "fired" =>
       /\ promise = "rejected"
       /\ ttsPc = "done" /\ IsFallbackResult(ttsResp)
  /\ (proc = "closed" /\ timer # "fired") => (timer = "cancelled" /\ ~killSent)
  /\ timer = "cancelled" => proc = "closed"

\* the timer fired on a running child: the signal was sent and the fallback
\* answered
C10_Witness ==
  /\ timer = "fired" /\ killSent
  /\ settledBy.by = "timeout"
  /\ proc = "running"
  /\ IsFallbackResult(ttsResp)

(***************************************************************************)
(* The extraction endpoint's responses.                                    *)
(***************************************************************************)
\* the backends of a request in priority order
BackendOrder ==
  IF exReq.usePython THEN <<"python">> \o CascadeMethods ELSE CascadeMethods

\* what a backend yields for the request's document when it is run
Yields(backend) ==
  CASE backend = "python" ->
         [ok |-> exEnv.py.kind \in {"file", "stdout"}, text |-> exEnv.py.text]
    [] backend = "pdf-parse" ->
         [ok |-> exEnv.lib.kind = "text", text |-> exEnv.lib.text]
    [] backend = "JavaScript (Basic)" ->
         [ok |-> TRUE, text |-> Trim(exEnv.heur)]

MeetsGate(backend) ==
  Yields(backend).ok /\ Len(Yields(backend).text) >= EndpointGate

ValidExRequest == exReq.hasFile /\ exReq.isPdf

\* C3: if some backend in priority order yields text that meets the gate, the
\* answer is 200 success=true with the text of the first such backend, also
\* when an earlier backend returned text below the gate.
C3_FirstPassingBackendWins ==
  (exPc = "done" /\ ValidExRequest
     /\ \E i \in 1..Len(BackendOrder) : MeetsGate(BackendOrder[i])) =>
    LET first == CHOOSE i \in 1..Len(BackendOrder) :
                   /\ MeetsGate(BackendOrder[i])
                   /\ \A j \in 1..(i - 1) : ~MeetsGate(BackendOrder[j])
    IN  /\ exResp.status = 200
        /\ exResp.success
        /\ exResp.text = Yields(BackendOrder[first]).text

\* C4: when every backend that was attempted raised or returned too little
\* text, the answer is 422 with error and metadata.
C4_AllFailedIs422 ==
  (exPc = "done" /\ ValidExRequest
     /\ \A i \in 1..Len(exTried) : ~MeetsGate(exTried[i])) =>
    exResp.status = 422 /\ exResp.error # ""

\* C5: a 200 success=true response carries at least 10 characters of text.
C5_SuccessMeetsGate ==
  (exResp.status = 200 /\ exResp.success) => Len(exResp.text) >= EndpointGate

\* a 200 response carrying exactly 10 characters that the external backend
\* read from stdout
C5_Witness ==
  /\ exResp.status = 200 /\ exResp.success
  /\ exResp.metadata.method = "Python (stdout)"
  /\ Len(exResp.text) = EndpointGate

(***************************************************************************)
(* The placeholder generators.                                             *)
(***************************************************************************)
\* C8: for every generator and text length L the duration is
\* max(floor(L/5)/150*60, 30) seconds and the sample count
\* floor(duration * 22050).
C8_DurationAndSamples ==
  wav.gen # "none" =>
    LET seconds150 == Max((wav.textLength \div 5) * 60, 30 * 150)
    IN  /\ wav.buf.duration.num * 150 = seconds150 * wav.buf.duration.den
        /\ wav.buf.duration.num >= 30 * wav.buf.duration.den
        /\ wav.buf.samples = (seconds150 * 22050) \div 150

\* the header of a buffer states its sample count and the fixed format
HeaderConsistent(buf) ==
  /\ Len(buf.header) = 44
  /\ SubSeq(buf.header, 1, 4) = CodesRIFF
  /\ GetUint32(buf.header, 4) = 36 + 2 * buf.samples
  /\ SubSeq(buf.header, 9, 12) = CodesWAVE
  /\ SubSeq(buf.header, 13, 16) = CodesFmt
  /\ GetUint32(buf.header, 16) = 16
  /\ GetUint16(buf.header, 20) = 1
  /\ GetUint16(buf.header, 22) = 1
  /\ GetUint32(buf.header, 24) = 22050
  /\ GetUint32(buf.header, 28) = 22050 * 2
  /\ GetUint16(buf.header, 32) = 2
  /\ GetUint16(buf.header, 34) = 16
  /\ SubSeq(buf.header, 37, 40) = CodesData
  /\ GetUint32(buf.header, 40) = 2 * buf.samples
  /\ buf.byteLength = 44 + 2 * buf.samples

\* C9: the 44-byte header of every placeholder is consistent with its sample
\* count N: RIFF size 36 + 2N, data size 2N, buffer 44 + 2N bytes, PCM, one
\* channel, 22050 Hz, byte rate 44100, block align 2, 16 bits.
C9_HeaderConsistent ==
  /\ wav.gen # "none" => HeaderConsistent(wav.buf)
  /\ (ttsPc = "done" /\ ttsResp.audioUrl.kind = "data") =>
       HeaderConsistent(ttsResp.audioUrl.wav)

\* the route's generator built a buffer longer than the 30-second floor
C9_Witness ==
  /\ wav.gen = "route"
  /\ wav.buf.samples > 30 * 22050
  /\ GetUint32(wav.buf.header, 40) = 2 * wav.buf.samples

(***************************************************************************)
(* Child processes and temporary files.                                    *)
(***************************************************************************)
\* C11: every wait on a child process ends (exit, error or timeout), so every
\* synthesis request and every extraction request that waits on its child is
\* eventually answered, whatever the child does.
C11_EveryRequestResponds ==
  /\ (ttsPc = "awaiting") ~> (ttsPc = "done")
  /\ (exPc = "awaitPython") ~> (exPc = "done")

\* C12: once the temporary copy of the document is written, its deletion is
\* attempted before the request continues: it is waiting to be deleted only
\* while the handler waits on the child, never when the cascade runs, the
\* result is checked or a response is sent.
C12_UploadUnlinkedBeforeContinuing ==
  /\ upload = "written" => exPc = "awaitPython"
  /\ exPc \in {"cascade", "gate", "done"} => upload \in {"never", "unlinked"}
  /\ exResp.status # 0 => upload # "written"
  /\ (upload = "never" /\ exPc \in {"cascade", "gate", "done"}) =>
       (~exReq.usePython \/ exEnv.py.kind = "prepFail" \/ exResp.status = 400)

\* the child exited nonzero and the cascade is about to start with the
\* temporary copy unlinked
C12_Witness ==
  /\ exPc = "cascade"
  /\ exEnv.py.kind = "exitNonzero"
  /\ pyProc = "closed"
  /\ upload = "unlinked"

\* C13: once the external backend has returned, the text file the tool
\* produced is gone, whatever the outcome.
C13_ArtifactAlwaysDeleted ==
  (exPc \in {"cascade", "gate", "done"} /\ pyProc \in {"errored", "closed"}) =>
    artifact # "present"

\* C14: after a synthesis request that ended on the fallback path no file of
\* the backend is left at the output path.
C14_FallbackLeavesNoFile ==
  (ttsPc = "done" /\ ttsResp.isFallback) => outFile = "absent"

StatedVoice(label) ==
  CASE label = "professional" -> [lang |-> "en", tld |-> "com"]
    [] label = "casual" -> [lang |-> "en", tld |-> "co.uk"]
    [] label = "academic" -> [lang |-> "en", tld |-> "com.au"]
    [] label = "friendly" -> [lang |-> "en", tld |-> "ca"]
    [] OTHER -> [lang |-> "en", tld |-> "com"]

\* C16: the four known labels resolve to their profiles and every other label
\* to the default profile (en, com).
C16_VoiceResolutionTotal ==
  BackendStarted => voiceSettings = StatedVoice(ttsReq.voice)

\* C17: a request without a file, or with a file that is not declared
\* application/pdf, is answered 400, and no temporary file is written, no
\* child started and no backend run for it.
C17_BadUploadIs400 ==
  (exPc # "idle" /\ ~ValidExRequest) =>
    /\ exPc \in {"received", "done"}
    /\ exPc = "done" => exResp.status = 400
    /\ exTried = <<>>
    /\ upload = "never" /\ artifact = "absent" /\ pyProc = "none"

\* a file of another type, sent with usePython, was answered 400
C17_Witness ==
  /\ exPc = "done"
  /\ exReq.hasFile /\ ~exReq.isPdf /\ exReq.usePython
  /\ exResp.status = 400
  /\ exTried = <<>>

\* C18: two requests handled at the same time share no path.
C18_PathsDistinct ==
  conc.kind # "none" => conc.first \cap conc.second = {}

(***************************************************************************)
(* The duration functions.                                                 *)
(***************************************************************************)
\* the words of a text: its maximal runs of non-whitespace characters
WordCount(text) ==
  Cardinality({i \in 1..Len(text) :
                 text[i] \notin Whitespace /\ (i = 1 \/ text[i - 1] \in Whitespace)})

\* C19: a text of no more words gets no longer a label (here against the
\* text of one word more), and a smaller character count gives no longer a
\* placeholder and no more samples.
C19_DurationsMonotone ==
  /\ est.asked =>
       est.label.minutes <= EstimateDuration(Words(WordCount(est.text) + 1)).minutes
  /\ wav.gen = "route" =>
       \A c \in 0..wav.textLength :
         /\ SpeechDuration(c).num * wav.buf.duration.den
              <= wav.buf.duration.num * SpeechDuration(c).den
         /\ SampleCount(SpeechDuration(c)) <= wav.buf.samples

\* C20: the label is M:00 with M = ceil(W / 150), W the number of words.
C20_LabelFromWordCount ==
  est.asked =>
    est.label = [minutes |-> (WordCount(est.text) + 149) \div 150, seconds |-> "00"]

(***************************************************************************)
(* The fallback response's label against its placeholder.                  *)
(***************************************************************************)
\* the word count of a text on one of the two bases the endpoint uses
WordsOnBase(base, text) ==
  IF base = "split" THEN SplitWordCount(text) ELSE Len(text) \div CharsPerWord

\* C21: in a fallback response the duration label and the placeholder's
\* length come from one word count of one text: some text of the request
\* (as sent, as cleaned, or as cleaned and truncated) and some base
\* (whitespace-split words, or characters divided by 5) give both.
C21_LabelAndPlaceholderShareBase ==
  (ttsPc = "done" /\ IsFallbackResult(ttsResp)) =>
    \E text \in {ttsReq.text, cleaned, cleanText}, base \in {"split", "chars"} :
      LET w == WordsOnBase(base, text)
      IN  /\ ttsResp.duration.minutes = (w + WordsPerMinute - 1) \div WordsPerMinute
          /\ ttsResp.audioUrl.wav.duration.num * WordsPerMinute
               = Max(w * 60, MinSeconds * WordsPerMinute)
                   * ttsResp.audioUrl.wav.duration.den

(***************************************************************************)
(* The error boundaries of the extraction backends.                        *)
(***************************************************************************)
\* the backend was run for the request
Tried(backend) == \E i \in 1..Len(exTried) : exTried[i] = backend

\* the backend was run and raised
Raised(backend) ==
  /\ Tried(backend)
  /\ CASE backend = "python" ->
            exEnv.py.kind \in {"prepFail", "spawnError", "exitNonzero"}
       [] backend = "pdf-parse" -> exEnv.lib.kind = "raise"
       [] OTHER -> FALSE

\* C22: when the external backend cannot be prepared or started or exits
\* nonzero, the library backend is run next, and when the library backend
\* raises, the heuristic backend is run next: no answered request has a
\* backend that raised without the next one in the order having been run.
C22_RaiseContinuesToNextBackend ==
  exPc = "done" =>
    /\ Raised("python") =>
         \E i \in 1..(Len(exTried) - 1) :
           exTried[i] = "python" /\ exTried[i + 1] = "pdf-parse"
    /\ Raised("pdf-parse") =>
         \E i \in 1..(Len(exTried) - 1) :
           exTried[i] = "pdf-parse" /\ exTried[i + 1] = "JavaScript (Basic)"

\* the interpreter could not be started, the library raised, and the request
\* was answered after all three backends had run
C22_Witness ==
  /\ exPc = "done"
  /\ exEnv.py.kind = "spawnError"
  /\ exEnv.lib.kind = "raise"
  /\ exTried = <<"python", "pdf-parse", "JavaScript (Basic)">>

(***************************************************************************)
(* The external backend's result after exit code 0.                        *)
(***************************************************************************)
\* C23: after exit code 0 the result's text is the produced file's text when
\* the file is readable, and the captured stdout when it is not and stdout is
\* non-empty; when the file is unreadable and stdout is empty the backend
\* reports no success, and the request is answered only after the library
\* backend has been run.
C23_ExitZeroResult ==
  (pyProc = "closed" /\ exEnv.py.kind \in {"file", "stdout"}) =>
    /\ exEnv.py.kind = "file" =>
         /\ exResult.text = exEnv.py.text
         /\ exResult.metadata.method = "Python (auto)"
    /\ (exEnv.py.kind = "stdout" /\ exEnv.py.text # <<>>) =>
         /\ exResult.text = exEnv.py.text
         /\ exResult.metadata.method = "Python (stdout)"
    /\ (exEnv.py.kind = "stdout" /\ exEnv.py.text = <<>>) =>
         /\ ~(exResult.success /\ exResult.metadata.method = "Python (stdout)")
         /\ exPc = "done" => Tried("pdf-parse")

(***************************************************************************)
(* The heuristic scan's two passes.                                        *)
(***************************************************************************)
\* the runs longer than a threshold, in order
Kept(runs, noise) == SelectSeq(runs, LAMBDA r : Len(r) > noise)

\* runs joined by a separator
RECURSIVE Joined(_, _)
Joined(runs, sep) ==
  IF runs = <<>> THEN <<>>
  ELSE IF Len(runs) = 1 THEN Head(runs)
  ELSE Head(runs) \o sep \o Joined(Tail(runs), sep)

\* C24: pass 1 keeps the stream runs longer than 10 characters; when that
\* gives 50 characters or more it is the result; when it gives fewer, the
\* result is the bracket-delimited runs joined by single spaces, in place of
\* the text of pass 1.  A document with no qualifying run gives the empty
\* text with success=false and no raise, which fails the endpoint's gate.
C24_TwoPasses ==
  scan.asked =>
    LET first == Joined(Kept(scan.doc.streams, StreamNoise), <<"\n">>)
        second == Joined(Kept(scan.doc.literals, LiteralNoise), <<" ">>)
    IN  /\ scan.result.text = IF Len(first) < SecondPassBelow THEN second ELSE first
        /\ (first = <<>> /\ second = <<>>) =>
             /\ scan.result.text = <<>>
             /\ ~scan.result.success
             /\ FailsEndpointGate(scan.result)

(***************************************************************************)
(* The cascade's gate against the endpoint's gate.                         *)
(***************************************************************************)
\* C26: a result of the library or of the heuristic backend that the
\* endpoint's final check would let through is accepted by the cascade: when
\* such a backend was run for a request, the request is answered 200 with
\* success=true.
C26_CascadeGateAgreesWithEndpoint ==
  (exPc = "done" /\ ValidExRequest) =>
    \A i \in 1..Len(CascadeMethods) :
      (/\ Tried(CascadeMethods[i])
       /\ ~CascadeRaises(i)
       /\ ~FailsEndpointGate(CascadeResult(i))) =>
        exResp.status = 200 /\ exResp.success

\* C27: every backend result carries the length of its text as
\* metadata.total_characters.
C27_TotalCharactersIsTextLength ==
  /\ exResult.metadata.total_characters = Len(exResult.text)
  /\ scan.asked => scan.result.metadata.total_characters = Len(scan.result.text)

(***************************************************************************)
(* The backend attempt's single outcome.                                   *)
(***************************************************************************)
\* the outcome the first event of an attempt gives it
OutcomeOf(by, code, marker) ==
  IF by = "close" /\ code = 0 /\ marker THEN "resolved" ELSE "rejected"

\* C28: whatever order the child's 'error', its 'close' and the timeout come
\* in, the attempt has one outcome, that of the first of them, and the request
\* one response: once the promise is settled, no later event changes the
\* promise, the event recorded for it or the response, and a timeout or an
\* 'error' that came first leaves the fallback result.
C28_FirstEventFixesOutcome ==
  [][(promise \in {"resolved", "rejected"} /\ ttsPc' # "idle") =>
       /\ promise' = promise
       /\ settledBy' = settledBy
       /\ ttsPc = "done" /\ ttsPc' = "done"
       /\ ttsResp' = ttsResp
       /\ promise = OutcomeOf(settledBy.by, settledBy.code, settledBy.marker)
       /\ settledBy.by \in {"timeout", "error"} => IsFallbackResult(ttsResp')]_vars

\* the timeout came first and the child then closed with code 0 and the
\* success marker, its file written: the response is still the fallback
C28_Witness ==
  /\ ttsPc = "done"
  /\ settledBy.by = "timeout"
  /\ timer = "fired"
  /\ closeSeen = [seen |-> TRUE, code |-> 0, marker |-> TRUE]
  /\ outFile = "full"
  /\ promise = "rejected"
  /\ IsFallbackResult(ttsResp)

(***************************************************************************)
(* The path the external backend reads its text from.                      *)
(***************************************************************************)
\* C29: the path the produced text is read from differs from the path of the
\* uploaded temporary document, whatever the file's name: the two paths of an
\* extraction request are two paths.
C29_TextPathDiffersFromUpload ==
  conc.kind = "extract" =>
    Cardinality(conc.first) = 2 /\ Cardinality(conc.second) = 2

(***************************************************************************)
(* The callers' gates.                                                     *)
(***************************************************************************)
\* the endpoint's answer whose text the client would pass on
UsedAnswer == IF client.retried THEN client.retry ELSE client.first

\* C25: text extracted from a PDF reaches quiz generation only with at least
\* 50 characters and podcast generation only with at least 100, from the
\* first request as from the retry; a 200 answer of the endpoint with a
\* shorter text ends in an error.
C25_CallerGates ==
  client.asked =>
    /\ client.generated =>
         /\ client.content = UsedAnswer.text
         /\ client.purpose = "quiz" => Len(client.content) >= 50
         /\ client.purpose = "podcast" => Len(client.content) >= 100
    /\ (UsedAnswer.status = 200
          /\ Len(UsedAnswer.text) < (IF client.purpose = "quiz" THEN 50 ELSE 100)) =>
         ~client.generated

\* the quiz component's retry was answered 200 with a text of fewer than 50
\* characters, which its extractPdfText returned, and the handler refused it
C25_Witness ==
  /\ client.asked
  /\ client.purpose = "quiz"
  /\ client.retried
  /\ client.retry.status = 200
  /\ Len(client.retry.text) >= QuizRetryGate
  /\ Len(client.retry.text) < 50
  /\ ~client.generated

(***************************************************************************)
(* The quiz-taking component's results view.                               *)
(***************************************************************************)
\* C30: whatever was generated, answered, completed, reviewed, reset and
\* generated again, showResults is true only if every question of the quiz
\* that is loaded has a selected answer.
C30_ResultsOnlyWhenAnswered ==
  ui.showResults => IsQuizFullyAnswered(ui)
====
